---- MODULE Spec2Model ----
(***************************************************************************)
(* A model of voronoi_treemap_gdp_example.py: the __main__ pipeline        *)
(* (run_voronoi_js, then plot_voronoi), the files it creates and removes,  *)
(* and the figure plot_voronoi builds.                                     *)
(*                                                                         *)
(* Numbers.  Centroid coordinates and distances are in hundredths of a     *)
(* data unit, the radial scale factor in 1/200, font sizes in thousandths  *)
(* of a point, and label positions in 1/3200000 of a data unit (so that    *)
(* coordinate * scale * 160 and 11 * font_size are in the same unit:       *)
(* 1.6 * (2.2 / 1024) = 11/3200).                                          *)
(***************************************************************************)
EXTENDS Integers, Sequences, FiniteSets, TLC

\* Longest polygon list handed to plot_voronoi in the layout inputs.
MaxCells == 3

\* Largest coordinate (hundredths) of the centroids of the radial inputs.
MaxCoord == 105

\* px.colors.qualitative.G10 has ten entries.
PaletteSize == 10

-----------------------------------------------------------------------------
(* The data: rows of gdp_2024.csv and polygon records of result.json.      *)

Countries == {"China", "India", "Germany"}

ContinentOf(name) == IF name = "Germany" THEN "Europe" ELSE "Asia"

\* The flag files below base_dir: the ones that exist, and the ones open() can read.
ExistingFlags == {"flags/cn.svg", "flags/locked.svg"}
ReadableFlags == {"flags/cn.svg"}

\* A cell of the Flag column holds a path, the empty string, or "NaN": the float
\* NaN pandas.read_csv puts in place of an empty field.

Max(a, b) == IF a >= b THEN a ELSE b
Min(a, b) == IF a <= b THEN a ELSE b

\* The integer square root of n, which lies in lo..hi, by bisection.
RECURSIVE Root(_, _, _)
Root(n, lo, hi) ==
    IF lo = hi THEN lo
    ELSE LET mid == (lo + hi + 1) \div 2
         IN  IF mid * mid <= n THEN Root(n, mid, hi) ELSE Root(n, lo, mid - 1)

\* math.sqrt.  The centroids of the model have a squared norm that is a perfect
\* square, so the root is exact.
sqrt(n) == Root(n, 0, 2 * MaxCoord)

PerfectSquare(n) == sqrt(n) * sqrt(n) = n

VARIABLES
    pc,             \* where __main__ is
    error,          \* the exception that ended the run, or "none"
    df,             \* the rows: [hasFlag, flags]
    html,           \* voronoi_treemap_gdp_example.html: "absent", "stale" or "fresh"
    shown,          \* fig.show() was called
    warned,         \* "No country polygons found!" was printed
    tempDir,        \* the TemporaryDirectory exists
    jsFile,         \* generate.mjs exists
    nodeRuns,       \* how many times subprocess.run was called
    nodeResult,     \* what the node process did: [exit, out]
    rvj,            \* run_voronoi_js: "idle", "running", "returned" or "raised"
    plotCalled,     \* plot_voronoi was entered
    polygons,       \* the polygon list given to plot_voronoi
    color_map,      \* continent -> palette index
    i,              \* index in country_polygons of the cell the loop is at
    anchors,        \* (cx, cy) of each cell of the loop after lines 144-149
    traces,         \* fig.data
    annotations,    \* fig.layout.annotations
    images,         \* fig.layout.images
    horizontal_gap  \* the local horizontal_gap: <<>> while unbound, else <<value>>

vars == <<pc, error, df, html, shown, warned, tempDir, jsFile, nodeRuns, nodeResult,
          rvj, plotCalled, polygons, color_map, i, anchors, traces, annotations,
          images, horizontal_gap>>

fileVars == <<tempDir, jsFile, nodeRuns, nodeResult, rvj>>
figVars == <<color_map, i, anchors, traces, annotations, images, horizontal_gap>>

-----------------------------------------------------------------------------
(* Polygon records, as the tessellator writes them (lines 55-61).  The     *)
(* centroid and the area are what shapely computes from the ring           *)
(* (lines 117-127); the model carries them in the record.                  *)

CountryCell(name, value, area, centroid) ==
    [name |-> name, value |-> value, depth |-> 2, parent |-> ContinentOf(name),
     area |-> area, centroid |-> centroid]

ContinentCell(name, value) ==
    [name |-> name, value |-> value, depth |-> 1, parent |-> "root",
     area |-> 4, centroid |-> <<0, 0>>]

\* Lists of at most n cells of a catalogue, with no name twice.
RECURSIVE ListsOver(_, _)
ListsOver(cells, n) ==
    IF n = 0 THEN {<<>>}
    ELSE LET shorter == ListsOver(cells, n - 1)
         IN  shorter \cup
             {Append(l, c) : l \in {s \in shorter : Len(s) = n - 1},
                             c \in cells} 

DistinctNames(l) == \A a, b \in 1..Len(l) : a # b => l[a].name # l[b].name

\* The contents of result.json after the node process.
NoFile == [kind |-> "missing", value |-> <<>>]
Garbage == [kind |-> "garbage", value |-> <<>>]
JsonDoc(v) == [kind |-> "json", value |-> v]

\* The tessellator's possible outputs in the pipeline runs.
PipelineCells ==
    {CountryCell(n, v, a, <<30, 40>>) : n \in Countries, v \in {1}, a \in {1, 2}}
        \cup {CountryCell("India", 2, 1, <<60, 80>>), ContinentCell("Asia", 3)}

PipelineOutputs == {l \in ListsOver(PipelineCells, MaxCells) : DistinctNames(l)}

\* How the node process can end: the script's catch block exits 1 before writing
\* result.json; exit code 0 with any contents of result.json; "notfound" is
\* subprocess.run failing to start node.
NodeOutcomes ==
    {[exit |-> "notfound", out |-> NoFile], [exit |-> "1", out |-> NoFile]}
        \cup {[exit |-> "0", out |-> f] :
                f \in {NoFile, Garbage} \cup {JsonDoc(l) : l \in PipelineOutputs}}

NotRun == [exit |-> "none", out |-> NoFile]

\* The rows: whether the Flag column is there, and the Flag of each country that
\* has a row.
Dfs ==
    {[hasFlag |-> TRUE, flags |-> [c \in Countries |-> "flags/cn.svg"]],
     [hasFlag |-> TRUE,
      flags |-> [c \in Countries |->
                    IF c = "China" THEN "flags/cn.svg"
                    ELSE IF c = "India" THEN "" ELSE "flags/gone.svg"]],
     [hasFlag |-> TRUE,
      flags |-> [c \in {"India", "Germany"} |->
                    IF c = "India" THEN "NaN" ELSE "flags/locked.svg"]],
     [hasFlag |-> FALSE, flags |-> [c \in Countries |-> ""]]}

-----------------------------------------------------------------------------
(* run_voronoi_js                                                          *)

Raise(exc) ==
    /\ error' = exc
    /\ pc' = "aborted"

\* subprocess.run without check=True: only a failure to start node raises.
SubprocessIgnoresExit(outcome) == outcome.exit = "notfound"

\* subprocess.run(..., check=True): does the call raise for this outcome?
SubprocessRaises(outcome) == outcome.exit # "0"

\* A load that also refuses an empty array.
LoadRejectsEmpty(file) == file.kind # "json" \/ file.value = <<>>

\* open(output_path) and json.load: does reading this result.json raise?
LoadRaises(file) == file.kind # "json"

LoadError(file) == IF file.kind = "missing" THEN "FileNotFoundError" ELSE "JSONDecodeError"

\* Lines 268, 72-79: entering the with block creates the temporary directory.
RvjEnter ==
    /\ pc = "main"
    /\ \E ok \in BOOLEAN :
         IF ok
         THEN /\ tempDir' = TRUE
              /\ rvj' = "running"
              /\ pc' = "to_json"
              /\ error' = error
         ELSE /\ tempDir' = FALSE
              /\ rvj' = "raised"
              /\ Raise("OSError")
    /\ UNCHANGED <<df, html, shown, warned, jsFile, nodeRuns, nodeResult, plotCalled,
                   polygons, figVars>>

\* Line 81: df[[...]].to_json(data_path); an exception leaves the with block,
\* which removes the directory.
RvjToJson ==
    /\ pc = "to_json"
    /\ \E ok \in BOOLEAN :
         IF ok
         THEN /\ pc' = "write_js"
              /\ UNCHANGED <<error, tempDir, rvj>>
         ELSE /\ tempDir' = FALSE
              /\ rvj' = "raised"
              /\ Raise("to_json")
    /\ UNCHANGED <<df, html, shown, warned, jsFile, nodeRuns, nodeResult, plotCalled,
                   polygons, figVars>>

\* Does generate.mjs exist after lines 83-84 end this way?  open(js_path, 'w')
\* creates the file; f.write can fail after that.
ScriptExistsAfter(how) == how \in {"written", "write_fails"}

\* Lines 83-84: the script is written next to the program, outside the try.
RvjWriteScript ==
    /\ pc = "write_js"
    /\ \E how \in {"written", "open_fails", "write_fails"} :
         /\ jsFile' = ScriptExistsAfter(how)
         /\ IF how = "written"
            THEN /\ pc' = "node"
                 /\ UNCHANGED <<error, tempDir, rvj>>
            ELSE /\ tempDir' = FALSE
                 /\ rvj' = "raised"
                 /\ Raise("OSError")
    /\ UNCHANGED <<df, html, shown, warned, nodeRuns, nodeResult, plotCalled,
                   polygons, figVars>>

\* Lines 86-90: one subprocess.run, and os.remove(js_path) in the finally.
RvjRunNode ==
    /\ pc = "node"
    /\ \E outcome \in NodeOutcomes :
         /\ nodeResult' = outcome
         /\ nodeRuns' = nodeRuns + 1
         /\ jsFile' = FALSE
         /\ IF SubprocessRaises(outcome)
            THEN /\ tempDir' = FALSE
                 /\ rvj' = "raised"
                 /\ Raise(IF outcome.exit = "notfound" THEN "FileNotFoundError"
                          ELSE "CalledProcessError")
            ELSE /\ pc' = "load"
                 /\ UNCHANGED <<error, tempDir, rvj>>
    /\ UNCHANGED <<df, html, shown, warned, plotCalled, polygons, figVars>>

\* Lines 92-93, the end of the with block, and the return to line 269, which
\* calls plot_voronoi(polygons, df).
RvjLoadResult ==
    /\ pc = "load"
    /\ tempDir' = FALSE
    /\ IF LoadRaises(nodeResult.out)
       THEN /\ rvj' = "raised"
            /\ Raise(LoadError(nodeResult.out))
            /\ UNCHANGED <<polygons, plotCalled>>
       ELSE /\ rvj' = "returned"
            /\ polygons' = nodeResult.out.value
            /\ plotCalled' = TRUE
            /\ pc' = "plot"
            /\ error' = error
    /\ UNCHANGED <<df, html, shown, warned, jsFile, nodeRuns, nodeResult, figVars>>

-----------------------------------------------------------------------------
(* plot_voronoi                                                            *)

IsCountry(p) == p.depth = 2

\* No filter on the depth.
AllPolygons(ps) == ps

\* Line 101.
CountryPolygons(ps) == SelectSeq(ps, IsCountry)

RECURSIVE SumValues(_)
SumValues(ps) == IF ps = <<>> THEN 0 ELSE Head(ps).value + SumValues(Tail(ps))

\* A total over every polygon of the list, continents included.
TotalOfAll(cps) == SumValues(polygons)

\* Line 108.
Total(cps) == SumValues(cps)

\* Line 138, as the fraction <<numerator, denominator>>.
Percentage(cell, total) == <<cell.value * 100, total>>

\* Line 109.
ContinentsOf(cps) == {cps[k].parent : k \in 1..Len(cps)}

\* Line 110: enumerate() walks a set of strings, whose iteration order is the
\* order of their hashes and differs from process to process; every order of
\* the continents is possible.
Enumerations(conts) ==
    {e \in [conts -> 0..(Cardinality(conts) - 1)] :
        \A a, b \in conts : a # b => e[a] # e[b]}

ColorMaps(conts) ==
    {[c \in conts |-> e[c] % PaletteSize] : e \in Enumerations(conts)}

\* Lines 129-131 (the list is not empty when they run).
MinArea(cps) == CHOOSE a \in {cps[k].area : k \in 1..Len(cps)} :
                    \A k \in 1..Len(cps) : a <= cps[k].area
MaxArea(cps) == CHOOSE a \in {cps[k].area : k \in 1..Len(cps)} :
                    \A k \in 1..Len(cps) : a >= cps[k].area

\* Line 144, in hundredths.
Distance(c) == sqrt(c[1] * c[1] + c[2] * c[2])

\* The scale factor without the floor of line 147.
ScaleUnclamped(d) == 200 - (d - 90) * 3

\* Lines 146-147, in 1/200: max(0.85, 1.0 - (distance - 0.9) * 1.5).
ScaleFactor(d) == Max(170, 200 - (d - 90) * 3)

\* Lines 145-149: (cx, cy) after the correction, in 1/20000.
Anchor(c) ==
    IF Distance(c) > 95
    THEN <<c[1] * ScaleFactor(Distance(c)), c[2] * ScaleFactor(Distance(c))>>
    ELSE <<c[1] * 200, c[2] * 200>>

\* Line 151 divides by max_area - min_area.
FontSizeRaises(lo, hi) == hi = lo

\* Lines 151-152, in thousandths of a point.
FontSize(area, lo, hi) ==
    Max(10000, Min(16000, 10000 + (6000 * (area - lo)) \div (hi - lo)))

\* Line 153.
ShowText(area, lo, d) == area >= lo /\ d <= 100

\* Line 170: country_flag_map.get(name).
FlagOf(rows, name) == IF name \in DOMAIN rows.flags THEN rows.flags[name] ELSE "None"

\* Lines 176-180: horizontal_gap = 1.6 * font_size * (2.2 / 1024), in 1/3200000.
GapOf(font) == 11 * font

\* Lines 156-167.
PolygonTrace(cell, cmap, total) ==
    [kind |-> "polygon", name |-> cell.name, fillcolor |-> cmap[cell.parent],
     pct |-> Percentage(cell, total), x |-> 0, y |-> 0]

\* Lines 184-195: the white marker behind the flag, vertical_gap above the anchor.
MarkerTrace(cell, a, font) ==
    [kind |-> "marker", name |-> cell.name, fillcolor |-> 0, pct |-> <<0, 1>>,
     x |-> a[1] * 160, y |-> a[2] * 160 + (6 * GapOf(font)) \div 5]

\* Lines 198-211.
FlagImage(cell, a, font) ==
    [name |-> cell.name, x |-> a[1] * 160,
     y |-> a[2] * 160 + (6 * GapOf(font)) \div 5, size |-> GapOf(font)]

\* Lines 216-229.
NameAnnotation(cell, a, font) ==
    [kind |-> "name", name |-> cell.name, x |-> a[1] * 160, y |-> a[2] * 160,
     size |-> (11 * font) \div 10]

\* The gap line 232 subtracts: the local horizontal_gap as it stands when the
\* line runs (gapNow), whatever cell assigned it.
GapUsed(gapNow, font) == gapNow[1]

\* Lines 230-243.
PctAnnotation(cell, a, font, gapNow) ==
    [kind |-> "pct", name |-> cell.name, x |-> a[1] * 160,
     y |-> a[2] * 160 - GapUsed(gapNow, font), size |-> (11 * font) \div 10]

\* Lines 169-243 for one cell with show_text: what the iteration adds to the
\* figure, the horizontal_gap it leaves, and the exception that ends it.
TextStep(cell, a, font, rows, gap) ==
    LET ref == FlagOf(rows, cell.name)
        none == [traces |-> <<>>, annotations |-> <<>>, images |-> <<>>,
                 gap |-> gap, exc |-> "none"]
        \* lines 171-213
        flag ==
            IF ref \in {"None", ""} THEN none
            ELSE IF ref = "NaN" THEN [none EXCEPT !.exc = "TypeError"]
            ELSE IF ref \notin ExistingFlags THEN none
            ELSE IF ref \notin ReadableFlags THEN none
            ELSE [none EXCEPT !.traces = <<MarkerTrace(cell, a, font)>>,
                              !.images = <<FlagImage(cell, a, font)>>,
                              !.gap = <<GapOf(font)>>]
    IN  IF flag.exc # "none" THEN flag
        ELSE IF flag.gap = <<>>
             THEN [flag EXCEPT !.annotations = <<NameAnnotation(cell, a, font)>>,
                               !.exc = "UnboundLocalError"]
             ELSE [flag EXCEPT !.annotations =
                                  <<NameAnnotation(cell, a, font),
                                    PctAnnotation(cell, a, font, flag.gap)>>]

\* Lines 101-104: no country polygon, a message and a return.
PlotFilter ==
    /\ pc = "plot"
    /\ IF CountryPolygons(polygons) = <<>>
       THEN /\ warned' = TRUE
            /\ pc' = "done"
       ELSE /\ warned' = warned
            /\ pc' = "setup"
    /\ UNCHANGED <<error, df, html, shown, fileVars, plotCalled, polygons, figVars>>

\* Lines 106-131: the color map, then the flag map, which needs the Flag column.
PlotSetup ==
    /\ pc = "setup"
    /\ color_map' \in ColorMaps(ContinentsOf(CountryPolygons(polygons)))
    /\ IF df.hasFlag
       THEN /\ pc' = "loop"
            /\ error' = error
       ELSE Raise("KeyError")
    /\ i' = 1
    /\ UNCHANGED <<df, html, shown, warned, fileVars, plotCalled, polygons, anchors,
                   traces, annotations, images, horizontal_gap>>

\* Lines 133-243: one iteration of the loop over processed_polygons.
PlotCell ==
    /\ pc = "loop"
    /\ i <= Len(CountryPolygons(polygons))
    /\ LET cps == CountryPolygons(polygons)
           cell == cps[i]
           lo == MinArea(cps)
           hi == MaxArea(cps)
           a == Anchor(cell.centroid)
       IN  /\ anchors' = Append(anchors, a)
           /\ IF FontSizeRaises(lo, hi)
              THEN /\ Raise("ZeroDivisionError")
                   /\ UNCHANGED <<i, traces, annotations, images, horizontal_gap>>
              ELSE LET font == FontSize(cell.area, lo, hi)
                       poly == PolygonTrace(cell, color_map, Total(cps))
                       step == IF ShowText(cell.area, lo, Distance(cell.centroid))
                               THEN TextStep(cell, a, font, df, horizontal_gap)
                               ELSE [traces |-> <<>>, annotations |-> <<>>,
                                     images |-> <<>>, gap |-> horizontal_gap,
                                     exc |-> "none"]
                   IN  /\ traces' = (traces \o <<poly>>) \o step.traces
                       /\ annotations' = annotations \o step.annotations
                       /\ images' = images \o step.images
                       /\ horizontal_gap' = step.gap
                       /\ IF step.exc = "none"
                          THEN /\ i' = i + 1
                               /\ UNCHANGED <<pc, error>>
                          ELSE /\ i' = i
                               /\ Raise(step.exc)
    /\ UNCHANGED <<df, html, shown, warned, fileVars, plotCalled, polygons, color_map>>

\* Lines 245-263: the layout, write_html and show.
PlotWrite ==
    /\ pc = "loop"
    /\ i > Len(CountryPolygons(polygons))
    /\ html' = "fresh"
    /\ shown' = TRUE
    /\ pc' = "done"
    /\ UNCHANGED <<error, df, warned, fileVars, plotCalled, polygons, figVars>>

-----------------------------------------------------------------------------
(* The pipeline: __main__ from line 268 on, the rows already read.         *)

EmptyFigure ==
    /\ color_map = <<>>
    /\ i = 0
    /\ anchors = <<>>
    /\ traces = <<>>
    /\ annotations = <<>>
    /\ images = <<>>
    /\ horizontal_gap = <<>>

Init ==
    /\ pc = "main"
    /\ error = "none"
    /\ df \in Dfs
    /\ html \in {"absent", "stale"}
    /\ shown = FALSE
    /\ warned = FALSE
    /\ tempDir = FALSE
    /\ jsFile = FALSE
    /\ nodeRuns = 0
    /\ nodeResult = NotRun
    /\ rvj = "idle"
    /\ plotCalled = FALSE
    /\ polygons = <<>>
    /\ EmptyFigure

Next ==
    \/ RvjEnter
    \/ RvjToJson
    \/ RvjWriteScript
    \/ RvjRunNode
    \/ RvjLoadResult
    \/ PlotFilter
    \/ PlotSetup
    \/ PlotCell
    \/ PlotWrite

Spec == Init /\ [][Next]_vars

-----------------------------------------------------------------------------
(* plot_voronoi called on its own, on bounded polygon lists and rows.      *)

\* Where the layout inputs put each country: inside, on the rim (distance 1,
\* corrected) and at distance 0.95 (the last one left alone).
CentroidOf(name) ==
    IF name = "China" THEN <<30, 40>>
    ELSE IF name = "India" THEN <<60, 80>> ELSE <<-57, 76>>

LayoutCells ==
    {CountryCell(n, v, a, CentroidOf(n)) : n \in Countries, v \in {1, 2}, a \in {1, 2, 3}}
        \cup {ContinentCell("Asia", 3)}

LayoutInputs == {l \in ListsOver(LayoutCells, MaxCells) : DistinctNames(l)}

\* Centroids at an exact distance from the origin.
ExactCentroids ==
    {c \in (-MaxCoord..MaxCoord) \X (-MaxCoord..MaxCoord) :
        PerfectSquare(c[1] * c[1] + c[2] * c[2])}

\* One cell anywhere, alone or before a cell of another area.
RadialInputs ==
    {<<CountryCell("China", 1, 1, c)>> : c \in ExactCentroids}
        \cup {<<CountryCell("China", 1, 1, c), CountryCell("Germany", 1, 2, <<30, 40>>)>> :
                c \in ExactCentroids}

AllFlags == [hasFlag |-> TRUE, flags |-> [c \in Countries |-> "flags/cn.svg"]]

InitPlot ==
    /\ pc = "plot"
    /\ error = "none"
    /\ \/ polygons \in LayoutInputs /\ df \in Dfs
       \/ polygons \in RadialInputs /\ df = AllFlags
    /\ html \in {"absent", "stale"}
    /\ shown = FALSE
    /\ warned = FALSE
    /\ tempDir = FALSE
    /\ jsFile = FALSE
    /\ nodeRuns = 0
    /\ nodeResult = NotRun
    /\ rvj = "idle"
    /\ plotCalled = TRUE
    /\ EmptyFigure

NextPlot ==
    \/ PlotFilter
    \/ PlotSetup
    \/ PlotCell
    \/ PlotWrite

SpecPlot == InitPlot /\ [][NextPlot]_vars

-----------------------------------------------------------------------------
(* The claims.                                                             *)

RvjDone == rvj \in {"returned", "raised"}

\* C1: when the node process exits with a non-zero code, run_voronoi_js raises,
\* plot_voronoi is never entered, the html file is not written, and
\* subprocess.run was called exactly once.
NonZeroExitAborts ==
    nodeResult.exit = "1" =>
        /\ pc = "aborted"
        /\ error = "CalledProcessError"
        /\ rvj = "raised"
        /\ ~plotCalled
        /\ html # "fresh"
        /\ ~shown
        /\ nodeRuns = 1

NonZeroExitSeen ==
    /\ nodeResult.exit = "1"
    /\ pc = "aborted"
    /\ html = "stale"
    /\ nodeRuns = 1

\* C2: whenever run_voronoi_js has finished, by a return or by an exception at
\* any step, neither the temporary directory nor generate.mjs exists.
ArtifactsRemoved == RvjDone => ~tempDir /\ ~jsFile

NoCountry == \A k \in 1..Len(polygons) : polygons[k].depth # 2

\* C9: given a list with no depth-2 polygon, plot_voronoi prints the warning and
\* returns without an exception, without writing the html file or showing a
\* figure, whether or not the rows have a Flag column.
NoCountryPolygonsWarns ==
    (plotCalled /\ NoCountry /\ pc # "plot") =>
        /\ pc = "done"
        /\ warned
        /\ error = "none"
        /\ html # "fresh"
        /\ ~shown
        /\ traces = <<>>

ContinentsOnlyWarned ==
    /\ plotCalled
    /\ polygons # <<>>
    /\ NoCountry
    /\ ~df.hasFlag
    /\ html = "stale"
    /\ pc = "done"
    /\ warned

\* The depth-2 cells of the list plot_voronoi was given, in order.
Cells == SelectSeq(polygons, LAMBDA p : p.depth = 2)

\* The loop has run its iteration for cell k, to its end or to an exception.
Reached(k) ==
    \/ pc = "done" /\ html = "fresh"
    \/ pc = "loop" /\ k < i
    \/ pc = "aborted" /\ i >= 1 /\ k <= i

\* The iteration for cell k is the one an exception ended.
AbortedAt(k) == pc = "aborted" /\ i = k

SquaredDistance(c) == c[1] * c[1] + c[2] * c[2]

\* No entry in the flag map, an empty reference, or a file that does not exist.
Flagless(cell) ==
    \/ cell.name \notin DOMAIN df.flags
    \/ df.flags[cell.name] \in {"", "NaN"}
    \/ df.flags[cell.name] \notin ExistingFlags

Has(seq, kind, name) == \E k \in 1..Len(seq) : seq[k].kind = kind /\ seq[k].name = name

\* C3: a depth-2 cell with no usable flag, wherever it stands in the list, gets
\* its polygon trace and both annotations, no marker and no image, and no
\* exception ends the run at it (cells inside the unit circle, and lists whose
\* areas differ, so that the font size is defined).
FlaglessCellRenders ==
    \A k \in 1..Len(Cells) :
        (/\ plotCalled
         /\ df.hasFlag
         /\ Reached(k)
         /\ Flagless(Cells[k])
         /\ SquaredDistance(Cells[k].centroid) <= 100 * 100
         /\ error # "ZeroDivisionError")
            => /\ ~AbortedAt(k)
               /\ Has(traces, "polygon", Cells[k].name)
               /\ Has(annotations, "name", Cells[k].name)
               /\ Has(annotations, "pct", Cells[k].name)
               /\ ~Has(traces, "marker", Cells[k].name)
               /\ \A m \in 1..Len(images) : images[m].name # Cells[k].name

SameAreas == \A a, b \in 1..Len(Cells) : Cells[a].area = Cells[b].area

\* C4: when every depth-2 polygon has the same area, no division by zero ends
\* the run: the loop goes through every cell and the figure is written.
EqualAreasRender ==
    (plotCalled /\ Cells # <<>> /\ SameAreas /\ df.hasFlag)
        => /\ error # "ZeroDivisionError"
           /\ \A k \in 1..Len(annotations) : annotations[k].size = 11000

\* The polygon traces of the figure, in order.
PolygonTraces == SelectSeq(traces, LAMBDA t : t.kind = "polygon")

RECURSIVE SumNumerators(_)
SumNumerators(ts) == IF ts = <<>> THEN 0 ELSE Head(ts).pct[1] + SumNumerators(Tail(ts))

\* C6: each polygon trace belongs to a depth-2 cell and carries
\* value * 100 / (sum of the values of the depth-2 cells); once the figure is
\* written the percentages of the depth-2 cells sum to 100; no polygon of another
\* depth has a trace or a share in the total.
PercentagesSumTo100 ==
    /\ \A k \in 1..Len(PolygonTraces) :
         /\ k <= Len(Cells)
         /\ PolygonTraces[k].name = Cells[k].name
         /\ PolygonTraces[k].pct = <<Cells[k].value * 100, SumValues(Cells)>>
    /\ (pc = "done" /\ html = "fresh") =>
         /\ Len(PolygonTraces) = Len(Cells)
         /\ SumValues(Cells) > 0
         /\ SumNumerators(PolygonTraces) = 100 * SumValues(Cells)

PercentagesWithContinent ==
    /\ pc = "done"
    /\ html = "fresh"
    /\ Len(Cells) = 2
    /\ Len(polygons) = 3
    /\ Cells[1].value # Cells[2].value

\* C7: the anchor of a cell is its centroid when the distance d is at most 0.95;
\* beyond, both coordinates are multiplied by s = max(0.85, 1 - (d - 0.9) * 1.5),
\* with 0.85 <= s < 1, which brings the anchor strictly closer to the origin.
RadialCorrection ==
    \A k \in 1..Len(anchors) :
        LET c == Cells[k].centroid
            a == anchors[k]
        IN  IF SquaredDistance(c) <= 95 * 95
            THEN a = <<200 * c[1], 200 * c[2]>>
            ELSE \E s \in 170..199 :
                   /\ a = <<s * c[1], s * c[2]>>
                   /\ \E d \in 96..(2 * MaxCoord) :
                        /\ d * d = SquaredDistance(c)
                        /\ (s = 200 - 3 * (d - 90) \/ (s = 170 /\ 200 - 3 * (d - 90) <= 170))
                   /\ SquaredDistance(a) < 200 * 200 * SquaredDistance(c)

ClampedAnchor ==
    \E k \in 1..Len(anchors) :
        /\ SquaredDistance(Cells[k].centroid) > 101 * 101
        /\ Cells[k].centroid[1] # 0
        /\ Cells[k].centroid[2] # 0
        /\ anchors[k] = <<170 * Cells[k].centroid[1], 170 * Cells[k].centroid[2]>>

\* The continents before the first cell of continent c, in the order of the list.
RECURSIVE FirstSeenIndex(_, _, _)
FirstSeenIndex(cps, c, seen) ==
    IF cps = <<>> \/ Head(cps).parent = c THEN Cardinality(seen)
    ELSE FirstSeenIndex(Tail(cps), c, seen \cup {Head(cps).parent})

\* C8: the continent that is the n-th to appear among the depth-2 polygons gets
\* palette entry n modulo the palette size, and every cell of a continent is
\* filled with that color.
ColorsInFirstSeenOrder ==
    (plotCalled /\ pc \in {"loop", "done"} /\ Cells # <<>>) =>
        /\ \A c \in DOMAIN color_map :
             color_map[c] = FirstSeenIndex(Cells, c, {}) % PaletteSize
        /\ \A k \in 1..Len(PolygonTraces) :
             PolygonTraces[k].fillcolor = color_map[Cells[k].parent]

\* The font size of cell k, from its own area.
OwnFont(k) ==
    LET lo == CHOOSE a \in {Cells[m].area : m \in 1..Len(Cells)} :
                 \A m \in 1..Len(Cells) : a <= Cells[m].area
        hi == CHOOSE a \in {Cells[m].area : m \in 1..Len(Cells)} :
                 \A m \in 1..Len(Cells) : a >= Cells[m].area
    IN  10000 + (6000 * (Cells[k].area - lo)) \div (hi - lo)

\* C10: the percentage annotation of a cell sits below the cell's own anchor by
\* the gap computed from the cell's own font size, and the name annotation at the
\* anchor.
LabelsFromOwnCell ==
    \A n \in 1..Len(annotations) :
        \A k \in 1..Len(Cells) :
            (Cells[k].name = annotations[n].name /\ k <= Len(anchors)) =>
                /\ annotations[n].x = 160 * anchors[k][1]
                /\ annotations[n].kind = "name" => annotations[n].y = 160 * anchors[k][2]
                /\ annotations[n].kind = "pct" =>
                     annotations[n].y = 160 * anchors[k][2] - 11 * OwnFont(k)
====
